---- MODULE Spec2Model ----
(***************************************************************************)
(* DitheryDoo: the batch driver (pipeline.py) and the VapourSynth -> FFmpeg *)
(* pipe orchestrator (ffmpeg_encode.py), as a state machine.               *)
(*                                                                         *)
(* A path is the sequence of its components; an argument of a command line *)
(* (a token) is a sequence of strings: a literal flag s is <<s>>, a path   *)
(* is the sequence of its components.                                      *)
(***************************************************************************)
EXTENDS Integers, Sequences, FiniteSets, TLC

\* ------------------------------------------------------------------ bounds
\* Most video/other files present under the input directory.
MaxFiles == 2
\* Most frames a frame-source run emits.
MaxFrames == 1
\* Capacity, in frames, of the OS pipe between the two processes.
PipeCap == 1
\* Most tokens of a free (non-catalog) profile's extra_args.
MaxExtra == 2

\* ------------------------------------------------ ffmpeg_encode.py: catalog
ENCODING_PROFILES ==
    [ prores_422_hq_10bit |->
        [codec |-> "prores_ks", profile |-> "3", pix_fmt |-> "yuv422p10le",
         extra_args |-> <<"-vendor", "apl0">>],
      prores_444_16bit |->
        [codec |-> "prores_ks", profile |-> "4", pix_fmt |-> "yuv444p16le",
         extra_args |-> <<"-vendor", "apl0">>],
      ffv1_10bit_422 |->
        [codec |-> "ffv1", level |-> "3", pix_fmt |-> "yuv422p10le",
         extra_args |-> <<"-coder", "1", "-context", "1", "-g", "1">>],
      ffv1_12bit_444 |->
        [codec |-> "ffv1", level |-> "3", pix_fmt |-> "yuv444p12le",
         extra_args |-> <<"-coder", "1", "-context", "1", "-g", "1">>] ]

\* The value of "no format" / "no profile" (Python's None).
None == "None"

\* ENCODING_PROFILES.get(format_name) is a profile (line 57-58: "if not profile")
ProfileFound(format_name) == format_name \in DOMAIN ENCODING_PROFILES

\* A literal argument.
Tok(s) == <<s>>

\* [Tok(s) : s in a list of strings]
Toks(strs) == [k \in 1..Len(strs) |-> Tok(strs[k])]

\* p.get('extra_args', [])
ExtraArgs(p) == IF "extra_args" \in DOMAIN p THEN p.extra_args ELSE <<>>

\* The argument list without the optional-stream markers on the audio and
\* subtitle maps.
BuildFfmpegCmd_unmarked(p, input_path, output_path) ==
    <<Tok("ffmpeg"), Tok("-i"), Tok("pipe:0"), Tok("-i"), input_path,
      Tok("-map"), Tok("0:v"), Tok("-map"), Tok("1:a"), Tok("-map"), Tok("1:s"),
      Tok("-c:v"), Tok(p.codec), Tok("-pix_fmt"), Tok(p.pix_fmt)>>
    \o (IF "profile" \in DOMAIN p THEN <<Tok("-profile:v"), Tok(p.profile)>> ELSE <<>>)
    \o (IF "level" \in DOMAIN p THEN <<Tok("-level:v"), Tok(p.level)>> ELSE <<>>)
    \o Toks(ExtraArgs(p))
    \o <<Tok("-c:a"), Tok("copy"), Tok("-c:s"), Tok("copy"), Tok("-y"), output_path>>

\* The argument list with '-profile:v' always emitted, with an empty value
\* when the profile has no 'profile' key.
BuildFfmpegCmd_placeholder(p, input_path, output_path) ==
    <<Tok("ffmpeg"), Tok("-i"), Tok("pipe:0"), Tok("-i"), input_path,
      Tok("-map"), Tok("0:v"), Tok("-map"), Tok("1:a?"), Tok("-map"), Tok("1:s?"),
      Tok("-c:v"), Tok(p.codec), Tok("-pix_fmt"), Tok(p.pix_fmt)>>
    \o <<Tok("-profile:v"), Tok(IF "profile" \in DOMAIN p THEN p.profile ELSE "")>>
    \o (IF "level" \in DOMAIN p THEN <<Tok("-level:v"), Tok(p.level)>> ELSE <<>>)
    \o Toks(ExtraArgs(p))
    \o <<Tok("-c:a"), Tok("copy"), Tok("-c:s"), Tok("copy"), Tok("-y"), output_path>>

\* encode_video, lines 67-93: the encoder's argument list.
BuildFfmpegCmd(p, input_path, output_path) ==
    <<Tok("ffmpeg"), Tok("-i"), Tok("pipe:0"), Tok("-i"), input_path,
      Tok("-map"), Tok("0:v"), Tok("-map"), Tok("1:a?"), Tok("-map"), Tok("1:s?"),
      Tok("-c:v"), Tok(p.codec), Tok("-pix_fmt"), Tok(p.pix_fmt)>>
    \o (IF "profile" \in DOMAIN p THEN <<Tok("-profile:v"), Tok(p.profile)>> ELSE <<>>)
    \o (IF "level" \in DOMAIN p THEN <<Tok("-level:v"), Tok(p.level)>> ELSE <<>>)
    \o Toks(ExtraArgs(p))
    \o <<Tok("-c:a"), Tok("copy"), Tok("-c:s"), Tok("copy"), Tok("-y"), output_path>>

\* encode_video, line 64: the frame-source's argument list.
BuildVspipeCmd(vpy_script) ==
    <<Tok("vspipe"), Tok("-c"), Tok("y4m"), vpy_script, Tok("-")>>

\* ------------------------------------------------- pipeline.py: configuration
\* The keys of get_selected_format's table, in the order the dict lists them.
FormatOrder ==
    <<"prores_422_hq_10bit", "prores_444_16bit", "ffv1_10bit_422", "ffv1_12bit_444">>

FormatNames == {FormatOrder[k] : k \in 1..Len(FormatOrder)}

\* The words a format name is made of ('prores_422_hq_10bit' -> prores, 422, ...):
\* what the substring tests of main() look at.
NameWords ==
    [ prores_422_hq_10bit |-> {"prores", "422", "hq", "10bit"},
      prores_444_16bit    |-> {"prores", "444", "16bit"},
      ffv1_10bit_422      |-> {"ffv1", "10bit", "422"},
      ffv1_12bit_444      |-> {"ffv1", "12bit", "444"} ]

\* word in format_name, for a whole word of the name
HasWord(format_name, word) == word \in NameWords[format_name]

\* find_video_files, line 123
supported_extensions == {".mp4", ".mov", ".avi", ".mkv", ".mxf", ".m2v"}

\* str.lower() on the suffixes of the files of the model
Lower(suffix) == IF suffix = ".MOV" THEN ".mov" ELSE suffix

\* The single-file input (input_file) and the entries that may exist under
\* input_directory: [dir: path relative to input_directory, stem, suffix].
input_file == [dir |-> "src", stem |-> "FULL MOON VIDEO HD", suffix |-> ".mkv"]

DirectoryListing ==
    << [dir |-> ".",   stem |-> "clip",  suffix |-> ".mkv"],
       [dir |-> ".",   stem |-> "notes", suffix |-> ".txt"],
       [dir |-> "sub", stem |-> "take",  suffix |-> ".MOV"],
       [dir |-> ".",   stem |-> "clip",  suffix |-> ".mov"] >>

Universe == {DirectoryListing[k] : k \in 1..Len(DirectoryListing)}

\* str(path) of an input, as a token
PathTok(f) == <<f.dir, f.stem, f.suffix>>

\* The values datetime.now().strftime(...) may give at the start of a run.
Timestamps == {"2024-01-01_00-00-00", "2024-01-01_00-00-01"}

\* Path(directory).glob(pattern) for the entries `present`: they come in the
\* order the directory lists them.
Glob(present) == SelectSeq(DirectoryListing, LAMBDA path : path \in present)

\* find_video_files, lines 121-129, on what glob yields
find_video_files(listing, recursive) ==
    SelectSeq(listing,
              LAMBDA path : /\ recursive \/ path.dir = "."
                            /\ Lower(path.suffix) \in supported_extensions)

\* A selection that takes the first enabled format, however many are enabled.
get_selected_format_first(enabled) ==
    IF \E n \in FormatNames : enabled[n]
        THEN FormatOrder[CHOOSE k \in 1..Len(FormatOrder) :
                 /\ enabled[FormatOrder[k]]
                 /\ \A m \in 1..(k-1) : ~enabled[FormatOrder[m]]]
        ELSE None

\* A selection whose table spells one key differently from the catalog.
get_selected_format_misspelt(enabled) ==
    LET selected == {n \in FormatNames : enabled[n]}
        only == CHOOSE n \in selected : TRUE
    IN  IF Cardinality(selected) # 1 THEN None
        ELSE IF only = "ffv1_12bit_444" THEN "ffv1_12bit_422" ELSE only

\* get_selected_format(), lines 108-119: the one enabled format, or None
get_selected_format(enabled) ==
    LET selected == {n \in FormatNames : enabled[n]}
    IN  IF Cardinality(selected) = 1 THEN CHOOSE n \in selected : TRUE ELSE None

\* The extension of line 231 alone (the profile's codec), without the two
\* tests on the format name that follow it.
FileExt_codec(selected_format) == ENCODING_PROFILES[selected_format].codec

\* main, lines 231-235: the output extension
FileExt(selected_format) ==
    IF HasWord(selected_format, "prores") THEN "mov"
    ELSE IF HasWord(selected_format, "ffv1") THEN "mkv"
    ELSE ENCODING_PROFILES[selected_format].codec

\* main, lines 223-227: the directory of a job's output, relative to output_dir
OutputFileDir(batch, f) == IF batch THEN f.dir ELSE "."

\* main, lines 237-238: output_file_dir / f"{stem}_{timestamp}_{format}.{ext}"
OutputPath(batch, f, ts, selected_format) ==
    <<ts, OutputFileDir(batch, f), f.stem, ts, selected_format, FileExt(selected_format)>>


\* ------------------------------------------------- the process environment
\* pipeline.py, lines 40-85: the options process_file hands to the script
test_mode == FALSE
test_frames == 200
use_nvidia_gpu == TRUE
dithering_algorithm == "floyd_steinberg"
enable_debanding == TRUE
debanding_strength == "maximum"

\* str() of a bool
StrBool(b) == IF b THEN "True" ELSE "False"

\* The variables process_file sets (lines 137-143), and the names of an
\* environment of the model. An environment gives every name its value, a
\* token, or Unset.
VSKeys ==
    {"VS_INPUT_PATH", "VS_TARGET_FORMAT", "VS_USE_GPU", "VS_DITHER_MODE",
     "VS_TEST_FRAMES", "VS_ENABLE_DEBANDING", "VS_DEBAND_STRENGTH"}
EnvKeys == VSKeys \cup {"PATH"}
Unset == <<>>

\* The environment of nothing: no call in progress, no process.
NoEnv == [k \in EnvKeys |-> Unset]
NoChildEnv == [vspipe |-> NoEnv, ffmpeg |-> NoEnv]

\* The environment the driver is started in: the user's shell has exported
\* two of the VS_* variables, left over from an earlier session.
InheritedEnvs ==
    { [k \in EnvKeys |->
          CASE k = "PATH" -> Tok("/usr/bin")
            [] k = "VS_TEST_FRAMES" -> Tok("25")
            [] k = "VS_INPUT_PATH" -> <<"old", "reel", ".mov">>
            [] OTHER -> Unset] }

\* process_file with env = os.environ instead of a copy of it: what it writes
\* is what the driver's environment becomes.
ProcessFileEnviron_shared(environ, job_env) == job_env

\* process_file, line 136: os.environ after the job's environment was made
\* from a copy of it.
ProcessFileEnviron(environ, job_env) == environ

\* process_file, lines 136-143: a copy of environ with the seven variables set
ProcessFileEnv(environ, input_path, fmt) ==
    [k \in EnvKeys |->
        CASE k = "VS_INPUT_PATH" -> PathTok(input_path)
          [] k = "VS_TARGET_FORMAT" -> Tok(fmt)
          [] k = "VS_USE_GPU" -> Tok(StrBool(use_nvidia_gpu))
          [] k = "VS_DITHER_MODE" -> Tok(dithering_algorithm)
          [] k = "VS_TEST_FRAMES" ->
                Tok(IF test_mode THEN ToString(test_frames) ELSE "0")
          [] k = "VS_ENABLE_DEBANDING" -> Tok(StrBool(enable_debanding))
          [] k = "VS_DEBAND_STRENGTH" -> Tok(debanding_strength)
          [] OTHER -> environ[k]]

\* ffmpeg_encode.py, lines 133-135: a copy of environ with two variables set
TestEnv(environ, input_path, fmt) ==
    [k \in EnvKeys |->
        CASE k = "VS_INPUT_PATH" -> PathTok(input_path)
          [] k = "VS_TARGET_FORMAT" -> Tok(fmt)
          [] OTHER -> environ[k]]

\* Popen(..., env=e): the child starts with e; Popen without env: the child
\* starts with the driver's environment as it is then.
PopenEnv(given, e, environ) == IF given THEN e ELSE environ

\* ---------------------------------------------------------------- the state
VARIABLES
    enabled,                  \* enable_<format> flags (lines 53-65)
    batch_process_directory,  \* line 30
    pc,                       \* where main() is
    exit_status,              \* the driver's exit status, NotExited while it runs
    crash_stage,              \* the step whose exception ended main(), or None
    timestamp,                \* main's timestamp (line 166)
    selected_format,          \* main's selected_format (line 186)
    deps,                     \* what check_dependencies saw of each tool
    files_to_process,         \* main's list (lines 199-212)
    i,                        \* 1-based index of the loop of line 219
    dirs,                     \* directories created, relative to output_dir
    jobs,                     \* per process_file call: file, output path, outcome
    epc,                      \* where encode_video is
    format_name,              \* encode_video's format_name argument
    profile,                  \* encode_video's profile (line 57)
    cmds,                     \* the two argument lists encode_video built
    returncode,               \* ffmpeg_process.returncode as the driver holds it
    result,                   \* what encode_video returned / raised
    vspipe,                   \* per job: the frame-source process
    ffmpeg,                   \* per job: the encoder process
    pipe,                     \* per job: the pipe between them
    os_environ,               \* the driver's own environment (os.environ)
    process_env,              \* process_file's env / encode_video's process_env
    child_env                 \* per job: the environment each child started with

vars ==
    <<enabled, batch_process_directory, pc,
      exit_status, crash_stage, timestamp, selected_format, deps,
      files_to_process, i, dirs, jobs, epc, format_name, profile, cmds,
      returncode, result, vspipe, ffmpeg, pipe, os_environ, process_env,
      child_env>>

config == <<enabled, batch_process_directory>>
main_vars ==
    <<pc, exit_status, crash_stage, timestamp, selected_format, deps,
      files_to_process, i, dirs, jobs>>
encode_vars == <<epc, format_name, profile, cmds, returncode, result>>
proc_vars == <<vspipe, ffmpeg, pipe>>
env_vars == <<os_environ, process_env, child_env>>

NotExited == -1
JobIds == 1..MaxFiles
Tools == {"ffmpeg", "vspipe"}

\* A process that was never spawned; a pipe that was never made.
NoProcess == [state |-> "none", rc |-> NotExited, frames |-> 0, reading |-> FALSE]
NoPipe == [buf |-> 0, parent_fd |-> "none"]

NoCmds == [vspipe |-> <<>>, ffmpeg |-> <<>>]
NoProfile == [codec |-> None, pix_fmt |-> None]
NoResult == [ok |-> FALSE, kind |-> "none"]

\* The path of process.vpy, next to pipeline.py (line 215)
vpy_script_path == <<"app", "process", ".vpy">>

\* What may exist on disk: input_file or not, and at most MaxFiles entries of
\* the input directory.
DiskContents ==
    { s \in SUBSET (Universe \cup {input_file}) : Cardinality(s \cap Universe) <= MaxFiles }

\* The state main() starts in, for any setting of the configuration block.
Init ==
    /\ enabled \in [FormatNames -> BOOLEAN]
    /\ batch_process_directory \in BOOLEAN
    /\ pc = "start"
    /\ exit_status = NotExited
    /\ crash_stage = None
    /\ timestamp = None
    /\ selected_format = None
    /\ deps = [t \in Tools |-> "unchecked"]
    /\ files_to_process = <<>>
    /\ i = 0
    /\ dirs = {}
    /\ jobs = <<>>
    /\ epc = "idle"
    /\ format_name = None
    /\ profile = NoProfile
    /\ cmds = NoCmds
    /\ returncode = NotExited
    /\ result = NoResult
    /\ vspipe = [j \in JobIds |-> NoProcess]
    /\ ffmpeg = [j \in JobIds |-> NoProcess]
    /\ pipe = [j \in JobIds |-> NoPipe]
    /\ os_environ \in InheritedEnvs
    /\ process_env = NoEnv
    /\ child_env = [j \in JobIds |-> NoChildEnv]

\* An exception that nothing catches ends main() with a traceback, status 1.
Crash(stage) ==
    /\ pc' = "crashed"
    /\ exit_status' = 1
    /\ crash_stage' = stage

\* sys.exit(1)
SysExit1 ==
    /\ pc' = "exited"
    /\ exit_status' = 1
    /\ UNCHANGED crash_stage

\* main, lines 165-182: the timestamp, the run's output directory, the log.
MainStart ==
    /\ pc = "start"
    /\ \E ts \in Timestamps : timestamp' = ts
    /\ dirs' = dirs \cup {"."}
    /\ pc' = "validate"
    /\ UNCHANGED <<config, env_vars, exit_status, crash_stage, selected_format, deps,
                   files_to_process, i, jobs, encode_vars, proc_vars>>

\* main, line 168 / 176: mkdir or the log file's open raises OSError.
MainStartFails ==
    /\ pc = "start"
    /\ \E ts \in Timestamps : timestamp' = ts
    /\ Crash("run_dir")
    /\ UNCHANGED <<config, env_vars, selected_format, deps, files_to_process, i, dirs,
                   jobs, encode_vars, proc_vars>>

\* main, lines 184-190
MainValidate ==
    /\ pc = "validate"
    /\ selected_format' = get_selected_format(enabled)
    /\ IF selected_format' = None
         THEN SysExit1
         ELSE pc' = "deps" /\ UNCHANGED <<exit_status, crash_stage>>
    /\ UNCHANGED <<config, env_vars, timestamp, deps, files_to_process, i, dirs, jobs,
                   encode_vars, proc_vars>>

\* What subprocess.run([cmd, '-h']) may do: run the tool (whatever it exits
\* with), raise FileNotFoundError, or raise another OSError.
LaunchOutcomes == {"ok", "missing", "error"}

\* What check_dependencies sees for the outcomes of the two launches: the
\* second tool is only tried when the first was launched.
DepsSeen(o_ffmpeg, o_vspipe) ==
    [t \in Tools |-> IF t = "ffmpeg" THEN o_ffmpeg
                     ELSE IF o_ffmpeg = "ok" THEN o_vspipe ELSE "unchecked"]

\* A dependency check that reports success whatever the launches did.
check_dependencies_trusting(seen) == "True"

\* check_dependencies, lines 98-106: True, False, or the exception raised

check_dependencies(seen) ==
    IF \E t \in Tools : seen[t] = "error" THEN "raise"
    ELSE IF \E t \in Tools : seen[t] = "missing" THEN "False"
    ELSE "True"

\* main, lines 192-196
MainCheckDependencies ==
    /\ pc = "deps"
    /\ \E o_ffmpeg, o_vspipe \in LaunchOutcomes :
         /\ deps' = DepsSeen(o_ffmpeg, o_vspipe)
         /\ IF check_dependencies(deps') = "raise" THEN Crash("deps")
            ELSE IF check_dependencies(deps') = "False" THEN SysExit1
            ELSE pc' = "discover" /\ UNCHANGED <<exit_status, crash_stage>>
    /\ UNCHANGED <<config, env_vars, timestamp, selected_format, files_to_process, i,
                   dirs, jobs, encode_vars, proc_vars>>

\* main, lines 198-217, for whatever is on disk at that moment and either
\* setting of process_subdirectories (line 34), which is read here only
MainDiscover ==
    /\ pc = "discover"
    /\ \E present \in DiskContents, process_subdirectories \in BOOLEAN :
         IF batch_process_directory
         THEN /\ files_to_process' = find_video_files(Glob(present \cap Universe),
                                                      process_subdirectories)
              /\ pc' = "loop" /\ i' = 1
              /\ UNCHANGED <<exit_status, crash_stage>>
         ELSE IF input_file \in present
              THEN /\ files_to_process' = <<input_file>>
                   /\ pc' = "loop" /\ i' = 1
                   /\ UNCHANGED <<exit_status, crash_stage>>
              ELSE /\ SysExit1
                   /\ UNCHANGED <<files_to_process, i>>
    /\ UNCHANGED <<config, env_vars, timestamp, selected_format, deps, dirs, jobs,
                   encode_vars, proc_vars>>

\* main, lines 219-240, then process_file, lines 133-146: the output directory
\* is made, the output path computed, and encode_video is entered.
MainJobBegin ==
    /\ pc = "loop" /\ i <= Len(files_to_process)
    /\ LET f == files_to_process[i]
       IN  /\ dirs' = dirs \cup {OutputFileDir(batch_process_directory, f)}
           /\ jobs' = Append(jobs,
                  [file |-> f,
                   output_path |-> OutputPath(batch_process_directory, f,
                                              timestamp, selected_format),
                   outcome |-> "running"])
    /\ pc' = "job"
    /\ epc' = "start"
    /\ format_name' = selected_format
    /\ process_env' = ProcessFileEnv(os_environ, files_to_process[i],
                                      selected_format)
    /\ os_environ' = ProcessFileEnviron(os_environ, process_env')
    /\ UNCHANGED <<config, child_env, exit_status, crash_stage, timestamp, selected_format,
                   deps, files_to_process, i, profile, cmds, returncode, result,
                   proc_vars>>

\* main, line 229: mkdir of a directory that does not exist yet raises OSError,
\* outside any try: main() ends there.
MainJobMkdirFails ==
    /\ pc = "loop" /\ i <= Len(files_to_process)
    /\ OutputFileDir(batch_process_directory, files_to_process[i]) \notin dirs
    /\ Crash("job_dir")
    /\ UNCHANGED <<config, env_vars, timestamp, selected_format, deps, files_to_process,
                   i, dirs, jobs, encode_vars, proc_vars>>

\* An end of main() that exits non-zero when some job did not succeed.
MainFinished_reports ==
    /\ pc = "loop" /\ i > Len(files_to_process)
    /\ pc' = "finished"
    /\ exit_status' = IF \E k \in 1..Len(jobs) : jobs[k].outcome # "success"
                        THEN 1 ELSE 0
    /\ UNCHANGED <<config, env_vars, crash_stage, timestamp, selected_format, deps,
                   files_to_process, i, dirs, jobs, encode_vars, proc_vars>>

\* main, line 242: the loop is over; main() returns, exit status 0.
MainFinished ==
    /\ pc = "loop" /\ i > Len(files_to_process)
    /\ pc' = "finished"
    /\ exit_status' = 0
    /\ UNCHANGED <<config, env_vars, crash_stage, timestamp, selected_format, deps,
                   files_to_process, i, dirs, jobs, encode_vars, proc_vars>>


\* ------------------------------------------------- encode_video (the driver)
\* The job encode_video is working on: the call in progress is the last one begun.
Cur == Len(jobs)

Returned(ok, kind) ==
    /\ result' = [ok |-> ok, kind |-> kind]
    /\ epc' = "returned"

\* A lookup whose miss is raised (a KeyError) instead of returned on.
EncodeStart_raises ==
    /\ epc = "start"
    /\ IF ~ProfileFound(format_name)
         THEN /\ result' = [ok |-> FALSE, kind |-> "raised"]
              /\ epc' = "raised"
              /\ UNCHANGED <<profile, cmds>>
         ELSE /\ profile' = ENCODING_PROFILES[format_name]
              /\ cmds' = [vspipe |-> BuildVspipeCmd(vpy_script_path),
                          ffmpeg |-> BuildFfmpegCmd(profile',
                                                    PathTok(jobs[Cur].file),
                                                    jobs[Cur].output_path)]
              /\ epc' = "spawn_vspipe"
              /\ UNCHANGED result
    /\ UNCHANGED <<config, env_vars, main_vars, format_name, returncode, proc_vars>>

\* encode_video, lines 56-96: the profile lookup, the two argument lists and
\* the two prints of them.
EncodeStart ==
    /\ epc = "start"
    /\ IF ~ProfileFound(format_name)
         THEN /\ Returned(FALSE, "profile_not_found")
              /\ UNCHANGED <<profile, cmds>>
         ELSE /\ profile' = ENCODING_PROFILES[format_name]
              /\ cmds' = [vspipe |-> BuildVspipeCmd(vpy_script_path),
                          ffmpeg |-> BuildFfmpegCmd(profile',
                                                    PathTok(jobs[Cur].file),
                                                    jobs[Cur].output_path)]
              /\ epc' = "spawn_vspipe"
              /\ UNCHANGED result
    /\ UNCHANGED <<config, env_vars, main_vars, format_name, returncode, proc_vars>>

\* encode_video, lines 95-96: print() of a command line raises (a path the
\* console's encoding cannot write): the exception leaves encode_video, whose
\* try starts at line 99, and is caught by process_file (line 157).
EncodeStartPrintRaises ==
    /\ epc = "start"
    /\ ProfileFound(format_name)
    /\ profile' = ENCODING_PROFILES[format_name]
    /\ cmds' = [vspipe |-> BuildVspipeCmd(vpy_script_path),
                ffmpeg |-> BuildFfmpegCmd(profile',
                                          PathTok(jobs[Cur].file),
                                          jobs[Cur].output_path)]
    /\ result' = [ok |-> FALSE, kind |-> "raised"]
    /\ epc' = "raised"
    /\ UNCHANGED <<config, env_vars, main_vars, format_name, returncode, proc_vars>>

\* line 100, Popen(vspipe_cmd, stdout=PIPE, env=process_env) succeeds: the
\* frame-source runs, with some number of frames to emit, and the driver holds
\* the read end of its stdout pipe.
EncodeSpawnVspipe ==
    /\ epc = "spawn_vspipe"
    /\ \E n \in 0..MaxFrames :
         vspipe' = [vspipe EXCEPT ![Cur] =
                       [state |-> "running", rc |-> NotExited, frames |-> n,
                        reading |-> FALSE]]
    /\ pipe' = [pipe EXCEPT ![Cur] = [buf |-> 0, parent_fd |-> "open"]]
    /\ epc' = "spawn_ffmpeg"
    /\ child_env' = [child_env EXCEPT ![Cur].vspipe =
                          PopenEnv(TRUE, process_env, os_environ)]
    /\ UNCHANGED <<config, os_environ, process_env, main_vars, format_name, profile, cmds, returncode, result, ffmpeg>>

\* What the handlers of lines 116-122 return for a failed launch.
SpawnFailureKind(outcome) ==
    IF outcome = "missing" THEN "tool_missing" ELSE "unexpected"

\* A failed frame-source launch that is recorded but not returned on: the
\* encoder is spawned next.
EncodeSpawnVspipeFails_goes_on ==
    /\ epc = "spawn_vspipe"
    /\ \E outcome \in {"missing", "error"} :
         result' = [ok |-> FALSE, kind |-> SpawnFailureKind(outcome)]
    /\ epc' = "spawn_ffmpeg"
    /\ UNCHANGED <<config, env_vars, main_vars, format_name, profile, cmds, returncode,
                   proc_vars>>

\* line 100 raises: FileNotFoundError (line 116) or another exception (line 120).
EncodeSpawnVspipeFails ==
    /\ epc = "spawn_vspipe"
    /\ \E outcome \in {"missing", "error"} :
         Returned(FALSE, SpawnFailureKind(outcome))
    /\ UNCHANGED <<config, env_vars, main_vars, format_name, profile, cmds, returncode,
                   proc_vars>>

\* The encoder's spawn followed by the wait, the close of line 104 left out.
EncodeSpawnFfmpeg_then_waits ==
    /\ epc = "spawn_ffmpeg"
    /\ ffmpeg' = [ffmpeg EXCEPT ![Cur] =
                     [state |-> "running", rc |-> NotExited, frames |-> 0,
                      reading |-> FALSE]]
    /\ epc' = "communicate"
    /\ child_env' = [child_env EXCEPT ![Cur].ffmpeg =
                          PopenEnv(FALSE, NoEnv, os_environ)]
    /\ UNCHANGED <<config, os_environ, process_env, main_vars, format_name, profile, cmds, returncode,
                   result, vspipe, pipe>>

\* line 101, Popen(ffmpeg_cmd, stdin=vspipe_process.stdout, ...) succeeds.
EncodeSpawnFfmpeg ==
    /\ epc = "spawn_ffmpeg"
    /\ ffmpeg' = [ffmpeg EXCEPT ![Cur] =
                     [state |-> "running", rc |-> NotExited, frames |-> 0,
                      reading |-> FALSE]]
    /\ epc' = "close"
    /\ child_env' = [child_env EXCEPT ![Cur].ffmpeg =
                          PopenEnv(FALSE, NoEnv, os_environ)]
    /\ UNCHANGED <<config, os_environ, process_env, main_vars, format_name, profile, cmds, returncode, result, vspipe, pipe>>

\* line 101 raises; the frame-source is already running.
EncodeSpawnFfmpegFails ==
    /\ epc = "spawn_ffmpeg"
    /\ \E outcome \in {"missing", "error"} :
         Returned(FALSE, SpawnFailureKind(outcome))
    /\ UNCHANGED <<config, env_vars, main_vars, format_name, profile, cmds, returncode,
                   proc_vars>>

\* Line 104 without its effect: the driver keeps its handle open.
EncodeClosePipe_skipped ==
    /\ epc = "close"
    /\ epc' = "communicate"
    /\ UNCHANGED <<config, env_vars, main_vars, format_name, profile, cmds, returncode, result, proc_vars>>

\* line 104, vspipe_process.stdout.close(). What a pipe still holds is
\* discarded when its last read end is closed.
EncodeClosePipe ==
    /\ epc = "close"
    /\ pipe' = [pipe EXCEPT ![Cur].parent_fd = "closed",
                            ![Cur].buf = IF ffmpeg[Cur].state = "running" THEN @ ELSE 0]
    /\ epc' = "communicate"
    /\ UNCHANGED <<config, env_vars, main_vars, format_name, profile, cmds, returncode, result, vspipe, ffmpeg>>

\* A child whose exit status its parent has collected: the OS entry is gone.
Reaped == [state |-> "reaped", rc |-> NotExited, frames |-> 0, reading |-> FALSE]

\* line 107, ffmpeg_process.communicate(): returns once the encoder has
\* exited, with its exit status collected.
EncodeCommunicate ==
    /\ epc = "communicate"
    /\ ffmpeg[Cur].state = "exited"
    /\ returncode' = ffmpeg[Cur].rc
    /\ ffmpeg' = [ffmpeg EXCEPT ![Cur] = Reaped]
    /\ epc' = "check"
    /\ UNCHANGED <<config, env_vars, main_vars, format_name, profile, cmds, result, vspipe,
                   pipe>>

\* A result that also fails the job when the frame-source exited non-zero.
EncodeCheck_both ==
    /\ epc = "check"
    /\ IF returncode # 0 \/ vspipe[Cur].rc = 1
         THEN \E decoded \in BOOLEAN :
                 Returned(FALSE, IF decoded THEN "nonzero_exit" ELSE "unexpected")
         ELSE Returned(TRUE, "success")
    /\ UNCHANGED <<config, env_vars, main_vars, format_name, profile, cmds, returncode,
                   proc_vars>>

\* lines 109-114: the result, from the encoder's exit status alone. On a
\* non-zero status stderr is decoded as UTF-8, which may raise (line 120).
EncodeCheck ==
    /\ epc = "check"
    /\ IF returncode # 0
         THEN \E decoded \in BOOLEAN :
                 Returned(FALSE, IF decoded THEN "nonzero_exit" ELSE "unexpected")
         ELSE Returned(TRUE, "success")
    /\ UNCHANGED <<config, env_vars, main_vars, format_name, profile, cmds, returncode,
                   proc_vars>>

\* What process_file logs (lines 153-158) for what encode_video did.
Logged(r, raised) ==
    IF raised THEN "exception" ELSE IF r.ok THEN "success" ELSE "failed"

\* A job boundary that lets a failed job end main().
ProcessFileReturn_aborts ==
    /\ pc = "job"
    /\ epc \in {"returned", "raised"}
    /\ jobs' = [jobs EXCEPT ![Cur].outcome = Logged(result, epc = "raised")]
    /\ IF result.ok
         THEN pc' = "loop" /\ i' = i + 1 /\ UNCHANGED <<exit_status, crash_stage>>
         ELSE Crash("job") /\ UNCHANGED i
    /\ epc' = "idle"
    /\ format_name' = None
    /\ profile' = NoProfile
    /\ cmds' = NoCmds
    /\ returncode' = NotExited
    /\ result' = NoResult
    /\ process_env' = NoEnv
    /\ UNCHANGED <<config, os_environ, child_env, timestamp, selected_format, deps, files_to_process,
                   dirs, proc_vars>>

\* A job boundary that runs encode_video again on the same file when it
\* returned False.
ProcessFileReturn_retries ==
    /\ pc = "job"
    /\ epc \in {"returned", "raised"}
    /\ IF result.ok \/ epc = "raised"
         THEN /\ jobs' = [jobs EXCEPT ![Cur].outcome = Logged(result, epc = "raised")]
              /\ pc' = "loop"
              /\ i' = i + 1
              /\ epc' = "idle"
              /\ format_name' = None
         ELSE /\ epc' = "start"
              /\ UNCHANGED <<jobs, pc, i, format_name>>
    /\ profile' = NoProfile
    /\ cmds' = NoCmds
    /\ returncode' = NotExited
    /\ result' = NoResult
    /\ process_env' = IF result.ok \/ epc = "raised" THEN NoEnv ELSE process_env
    /\ UNCHANGED <<config, os_environ, child_env, exit_status, crash_stage, timestamp, selected_format,
                   deps, files_to_process, dirs, proc_vars>>

\* process_file, lines 153-158, and the loop's next iteration: the outcome is
\* logged, encode_video's locals are gone, and main() goes on with the next file.
ProcessFileReturn ==
    /\ pc = "job"
    /\ epc \in {"returned", "raised"}
    /\ jobs' = [jobs EXCEPT ![Cur].outcome = Logged(result, epc = "raised")]
    /\ pc' = "loop"
    /\ i' = i + 1
    /\ epc' = "idle"
    /\ format_name' = None
    /\ profile' = NoProfile
    /\ cmds' = NoCmds
    /\ returncode' = NotExited
    /\ result' = NoResult
    /\ process_env' = NoEnv
    /\ UNCHANGED <<config, os_environ, child_env, exit_status, crash_stage, timestamp, selected_format,
                   deps, files_to_process, dirs, proc_vars>>

\* ------------------------------------------------------ the child processes
\* A child that has exited with status rc and is not reaped yet (its memory,
\* and the handles it held, are gone).
Exited(rc) == [state |-> "exited", rc |-> rc, frames |-> 0, reading |-> FALSE]

\* Some process holds the read end of job j's pipe open.
Readers(j) == pipe[j].parent_fd = "open" \/ ffmpeg[j].state = "running"

\* The frame-source writes a frame: the pipe has room and a reader.
VspipeWrite(j) ==
    /\ vspipe[j].state = "running"
    /\ vspipe[j].frames > 0
    /\ pipe[j].buf < PipeCap
    /\ Readers(j)
    /\ vspipe' = [vspipe EXCEPT ![j].frames = @ - 1]
    /\ pipe' = [pipe EXCEPT ![j].buf = @ + 1]
    /\ UNCHANGED <<config, env_vars, main_vars, encode_vars, ffmpeg>>

\* The frame-source writes to a pipe nobody can read any more: EPIPE / SIGPIPE.
VspipeBrokenPipe(j) ==
    /\ vspipe[j].state = "running"
    /\ vspipe[j].frames > 0
    /\ ~Readers(j)
    /\ vspipe' = [vspipe EXCEPT ![j] = Exited(1)]
    /\ UNCHANGED <<config, env_vars, main_vars, encode_vars, ffmpeg, pipe>>

\* The frame-source has written its last frame and exits, closing the write end.
VspipeFinish(j) ==
    /\ vspipe[j].state = "running"
    /\ vspipe[j].frames = 0
    /\ vspipe' = [vspipe EXCEPT ![j] = Exited(0)]
    /\ UNCHANGED <<config, env_vars, main_vars, encode_vars, ffmpeg, pipe>>

\* The frame-source fails (a script error) and exits non-zero.
VspipeFail(j) ==
    /\ vspipe[j].state = "running"
    /\ vspipe' = [vspipe EXCEPT ![j] = Exited(1)]
    /\ UNCHANGED <<config, env_vars, main_vars, encode_vars, ffmpeg, pipe>>

\* The encoder reads a frame from its stdin.
FfmpegRead(j) ==
    /\ ffmpeg[j].state = "running"
    /\ pipe[j].buf > 0
    /\ pipe' = [pipe EXCEPT ![j].buf = @ - 1]
    /\ ffmpeg' = [ffmpeg EXCEPT ![j].reading = TRUE]
    /\ UNCHANGED <<config, env_vars, main_vars, encode_vars, vspipe>>

\* The encoder reads end-of-input (the pipe is empty and its writer gone),
\* finishes the output and exits, with status 0 or not.
FfmpegEOF(j) ==
    /\ ffmpeg[j].state = "running"
    /\ pipe[j].buf = 0
    /\ vspipe[j].state = "exited"
    /\ \E rc \in {0, 1} : ffmpeg' = [ffmpeg EXCEPT ![j] = Exited(rc)]
    /\ UNCHANGED <<config, env_vars, main_vars, encode_vars, vspipe, pipe>>

\* The encoder fails early (it cannot open an input, or write the output).
FfmpegFail(j) ==
    /\ ffmpeg[j].state = "running"
    /\ ffmpeg' = [ffmpeg EXCEPT ![j] = Exited(1)]
    /\ pipe' = [pipe EXCEPT ![j].buf = IF pipe[j].parent_fd = "open" THEN @ ELSE 0]
    /\ UNCHANGED <<config, env_vars, main_vars, encode_vars, vspipe>>

\* ------------------------------------------------------- the specifications
Main ==
    \/ MainStart
    \/ MainStartFails
    \/ MainValidate
    \/ MainCheckDependencies
    \/ MainDiscover
    \/ MainJobBegin
    \/ MainJobMkdirFails
    \/ MainFinished
    \/ ProcessFileReturn

Encode ==
    \/ EncodeStart
    \/ EncodeStartPrintRaises
    \/ EncodeSpawnVspipe
    \/ EncodeSpawnVspipeFails
    \/ EncodeSpawnFfmpeg
    \/ EncodeSpawnFfmpegFails
    \/ EncodeClosePipe
    \/ EncodeCommunicate
    \/ EncodeCheck

Children ==
    \E j \in JobIds :
        \/ VspipeWrite(j)
        \/ VspipeBrokenPipe(j)
        \/ VspipeFinish(j)
        \/ VspipeFail(j)
        \/ FfmpegRead(j)
        \/ FfmpegEOF(j)
        \/ FfmpegFail(j)

Next == Main \/ Encode \/ Children

Spec == Init /\ [][Next]_vars


\* ------------------------------------- ffmpeg_encode.py run as a script
\* Output paths given on the command line (sys.argv[2]).
StandaloneOutputs == {<<"out", "a", ".mov">>, <<"out", "b", ".mkv">>}

\* Format names given on the command line (sys.argv[3]): any string.
StandaloneFormats == FormatNames \cup {"h264_8bit"}

\* The state before the script's first statement.
StandaloneInit ==
    /\ enabled = [n \in FormatNames |-> FALSE]
    /\ batch_process_directory = FALSE
    /\ pc = "standalone_start"
    /\ exit_status = NotExited
    /\ crash_stage = None
    /\ timestamp = None
    /\ selected_format = None
    /\ deps = [t \in Tools |-> "unchecked"]
    /\ files_to_process = <<>>
    /\ i = 0
    /\ dirs = {}
    /\ jobs = <<>>
    /\ epc = "idle"
    /\ format_name = None
    /\ profile = NoProfile
    /\ cmds = NoCmds
    /\ returncode = NotExited
    /\ result = NoResult
    /\ vspipe = [j \in JobIds |-> NoProcess]
    /\ ffmpeg = [j \in JobIds |-> NoProcess]
    /\ pipe = [j \in JobIds |-> NoPipe]
    /\ os_environ \in InheritedEnvs
    /\ process_env = NoEnv
    /\ child_env = [j \in JobIds |-> NoChildEnv]

\* lines 128-130: the wrong number of arguments
StandaloneUsage ==
    /\ pc = "standalone_start"
    /\ SysExit1
    /\ UNCHANGED <<config, env_vars, timestamp, selected_format, deps, files_to_process,
                   i, dirs, jobs, encode_vars, proc_vars>>

\* lines 133-138: encode_video(argv[1], argv[2], argv[3], argv[4], test_env)
StandaloneCall ==
    /\ pc = "standalone_start"
    /\ \E f \in Universe, out \in StandaloneOutputs, fmt \in StandaloneFormats :
         /\ jobs' = <<[file |-> f, output_path |-> out, outcome |-> "running"]>>
         /\ format_name' = fmt
         /\ process_env' = TestEnv(os_environ, f, fmt)
    /\ pc' = "standalone"
    /\ epc' = "start"
    /\ UNCHANGED <<config, os_environ, child_env, exit_status, crash_stage, timestamp, selected_format,
                   deps, files_to_process, i, dirs, profile, cmds, returncode,
                   result, proc_vars>>

\* line 139: sys.exit(0 if success else 1)
StandaloneExit ==
    /\ pc = "standalone"
    /\ epc = "returned"
    /\ pc' = "exited"
    /\ exit_status' = IF result.ok THEN 0 ELSE 1
    /\ jobs' = [jobs EXCEPT ![Cur].outcome = Logged(result, FALSE)]
    /\ epc' = "idle"
    /\ format_name' = None
    /\ profile' = NoProfile
    /\ cmds' = NoCmds
    /\ returncode' = NotExited
    /\ result' = NoResult
    /\ process_env' = NoEnv
    /\ UNCHANGED <<config, os_environ, child_env, crash_stage, timestamp, selected_format, deps,
                   files_to_process, i, dirs, proc_vars>>

\* line 138: an exception leaves encode_video; nothing catches it.
StandaloneCrash ==
    /\ pc = "standalone"
    /\ epc = "raised"
    /\ Crash("encode_video")
    /\ jobs' = [jobs EXCEPT ![Cur].outcome = Logged(result, TRUE)]
    /\ epc' = "idle"
    /\ format_name' = None
    /\ profile' = NoProfile
    /\ cmds' = NoCmds
    /\ returncode' = NotExited
    /\ result' = NoResult
    /\ process_env' = NoEnv
    /\ UNCHANGED <<config, os_environ, child_env, timestamp, selected_format, deps, files_to_process,
                   i, dirs, proc_vars>>

Standalone ==
    \/ StandaloneUsage
    \/ StandaloneCall
    \/ StandaloneExit
    \/ StandaloneCrash

StandaloneNext == Standalone \/ Encode \/ Children

StandaloneSpec == StandaloneInit /\ [][StandaloneNext]_vars

\* The script keeps running while it has a step to take; the frame-source
\* writes while it can, and exits when it is done or its pipe is broken; the
\* encoder reads what there is and exits on end-of-input. Neither child is
\* obliged to fail.
Fairness ==
    /\ WF_vars(Standalone)
    /\ WF_vars(Encode)
    /\ \A j \in JobIds :
         /\ WF_vars(VspipeWrite(j))
         /\ WF_vars(VspipeBrokenPipe(j))
         /\ WF_vars(VspipeFinish(j))
         /\ WF_vars(FfmpegRead(j))
         /\ WF_vars(FfmpegEOF(j))

FairStandaloneSpec == StandaloneSpec /\ Fairness

\* ------------------------------- the command builder on arbitrary profiles
Codecs == {"prores_ks", "ffv1"}
PixFmts == {"yuv422p10le", "yuv444p16le"}
ProfileValues == {"3", "1"}
LevelValues == {"3"}
OptionalKeys == {"profile", "level", "extra_args"}
ExtraVocabulary == {"-vendor", "apl0", "-g", "1"}
ExtraLists == UNION {[1..n -> ExtraVocabulary] : n \in 0..MaxExtra}

\* A profile dict with the two required keys and the optional keys `keys`.
ProfileOf(codec, pix_fmt, keys, prof, level, extra_args) ==
    [k \in {"codec", "pix_fmt"} \cup keys |->
        CASE k = "codec" -> codec
          [] k = "pix_fmt" -> pix_fmt
          [] k = "profile" -> prof
          [] k = "level" -> level
          [] k = "extra_args" -> extra_args]

FreeProfiles ==
    { ProfileOf(c, x, K, pr, lv, ex) :
        c \in Codecs, x \in PixFmts, K \in SUBSET OptionalKeys,
        pr \in ProfileValues, lv \in LevelValues, ex \in ExtraLists }

CatalogProfiles == {ENCODING_PROFILES[n] : n \in FormatNames}

\* Lines 62-93 of encode_video are about to run on some profile and paths.
BuildInit ==
    /\ enabled = [n \in FormatNames |-> FALSE]
    /\ batch_process_directory = FALSE
    /\ pc = "build"
    /\ exit_status = NotExited
    /\ crash_stage = None
    /\ timestamp = None
    /\ selected_format = None
    /\ deps = [t \in Tools |-> "unchecked"]
    /\ files_to_process = <<>>
    /\ i = 0
    /\ dirs = {}
    /\ \E f \in {DirectoryListing[1], DirectoryListing[3]}, out \in StandaloneOutputs :
         jobs = <<[file |-> f, output_path |-> out, outcome |-> "running"]>>
    /\ epc = "start"
    /\ format_name = None
    /\ profile \in FreeProfiles \cup CatalogProfiles
    /\ cmds = NoCmds
    /\ returncode = NotExited
    /\ result = NoResult
    /\ vspipe = [j \in JobIds |-> NoProcess]
    /\ ffmpeg = [j \in JobIds |-> NoProcess]
    /\ pipe = [j \in JobIds |-> NoPipe]
    /\ os_environ \in InheritedEnvs
    /\ process_env = NoEnv
    /\ child_env = [j \in JobIds |-> NoChildEnv]

\* lines 62-93
BuildCommands ==
    /\ pc = "build"
    /\ epc = "start"
    /\ cmds' = [vspipe |-> BuildVspipeCmd(vpy_script_path),
                ffmpeg |-> BuildFfmpegCmd(profile, PathTok(jobs[Cur].file),
                                          jobs[Cur].output_path)]
    /\ epc' = "built"
    /\ UNCHANGED <<config, env_vars, main_vars, format_name, profile, returncode, result,
                   proc_vars>>

BuildNext == BuildCommands

BuildSpec == BuildInit /\ [][BuildNext]_vars


\* ================================================================ the claims
Ended == pc \in {"finished", "exited", "crashed"}
Selected == {n \in FormatNames : enabled[n]}
NoChildEver == \A j \in JobIds : vspipe[j].state = "none" /\ ffmpeg[j].state = "none"

\* C1: main()'s loop calls process_file once per file, in list order, whatever
\* each job's outcome (success, encoder failure, missing tool, exception): the
\* calls made so far are the first files of the list in order, a run that
\* reaches the end of main() has logged an outcome for every file, and a run
\* that ends after a first call ended on the loop's own mkdir, never on a job.
C1_EveryFileAttempted ==
    /\ Len(jobs) <= Len(files_to_process)
    /\ \A k \in 1..Len(jobs) : jobs[k].file = files_to_process[k]
    /\ pc = "loop" => Len(jobs) = i - 1
    /\ pc = "job" => Len(jobs) = i
    /\ pc = "finished" =>
          /\ Len(jobs) = Len(files_to_process)
          /\ \A k \in 1..Len(jobs) : jobs[k].outcome # "running"
    /\ (Ended /\ jobs # <<>> /\ pc # "finished") =>
          /\ crash_stage = "job_dir"
          /\ \A k \in 1..Len(jobs) : jobs[k].outcome # "running"

\* A run of two files whose first job failed and whose second was still run.
C1_Witness ==
    /\ pc = "finished"
    /\ Len(jobs) = 2
    /\ jobs[1].outcome \in {"failed", "exception"}
    /\ jobs[2].outcome = "success"

\* C2: with zero or several formats enabled, or a tool that check_dependencies
\* cannot launch, main() ends with a non-zero status and no job ever starts.
C2_StartupAborts ==
    /\ Cardinality(Selected) # 1 => pc \in {"start", "validate", "exited", "crashed"}
    /\ (\E t \in Tools : deps[t] \in {"missing", "error"}) => pc \in {"exited", "crashed"}
    /\ pc \in {"exited", "crashed"} => exit_status = 1
    /\ (Cardinality(Selected) # 1 \/ \E t \in Tools : deps[t] \in {"missing", "error"}) =>
          /\ jobs = <<>>
          /\ epc = "idle"
          /\ NoChildEver
          /\ exit_status # 0

\* The run was stopped by the dependency check: vspipe is missing.
C2_Witness ==
    /\ pc = "exited"
    /\ deps["ffmpeg"] = "ok"
    /\ deps["vspipe"] = "missing"
    /\ exit_status = 1

\* The directories jobs of this configuration write their output into.
JobOutputDirs ==
    IF batch_process_directory
        THEN {OutputFileDir(TRUE, f) : f \in Universe}
        ELSE {OutputFileDir(FALSE, input_file)}

ValidationFailed == pc = "exited" /\ selected_format = None

\* C3 as stated: when validation fails, no directory a job would write into exists.
C3_NoJobDirectory == ValidationFailed => dirs \cap JobOutputDirs = {}

\* C3, amended: with zero or several formats enabled main() stops at the
\* validation, before the loop: no job was begun and the loop's mkdir (line
\* 229) never ran; the one directory that exists is the run's own timestamped
\* directory, made at line 168 for the log.
C3_OnlyRunDirectory ==
    /\ Cardinality(Selected) # 1 /\ pc \notin {"start", "validate", "crashed"} =>
          ValidationFailed
    /\ ValidationFailed => dirs = {"."} /\ jobs = <<>>

\* Validation failed with two formats enabled.
C3_Witness == ValidationFailed /\ Cardinality(Selected) = 2 /\ "." \in dirs

\* C4: two distinct input files of a run never get the same output path.
C4_OutputPathsUnique ==
    \A a, b \in 1..Len(jobs) :
        jobs[a].file # jobs[b].file => jobs[a].output_path # jobs[b].output_path

\* C5: once both processes are launched, encode_video returns True exactly when
\* the encoder's exit status is zero, whatever the frame-source exited with;
\* the frame-source's status is never collected.
C5_EncoderExitDecides ==
    /\ (epc = "returned" /\ ffmpeg[Cur].state # "none") =>
          /\ returncode \in {0, 1}
          /\ result.ok <=> returncode = 0
    /\ \A j \in JobIds : vspipe[j].state # "reaped"

\* encode_video returned True although the frame-source exited non-zero.
C5_Witness ==
    /\ epc = "returned"
    /\ result.ok
    /\ vspipe[Cur].state = "exited" /\ vspipe[Cur].rc = 1
    /\ returncode = 0


\* C6: the driver closes its handle to the frame-source's stdout after it has
\* spawned the encoder and before it waits on it, so that while it waits the
\* pipe is read by the encoder alone; and, the frame-source writing and
\* exiting and the encoder reading and exiting on end-of-input, encode_video
\* that has spawned both returns.
C6_ReleaseThenReturn ==
    /\ [](epc = "close" =>
            pipe[Cur].parent_fd = "open" /\ ffmpeg[Cur].state # "none")
    /\ [](epc \in {"communicate", "check"} =>
            /\ pipe[Cur].parent_fd = "closed"
            /\ Readers(Cur) => ffmpeg[Cur].state = "running")
    /\ (epc = "close" ~> epc = "returned")

\* encode_video has returned after waiting for the encoder, its handle closed.
C6_Witness ==
    /\ epc = "returned"
    /\ ffmpeg[Cur].state = "reaped"
    /\ pipe[Cur].parent_fd = "closed"
    /\ vspipe[Cur].state = "exited"

\* C7 as stated: the encoder never reads before the driver has released its handle.
C7_ReleasedBeforeRead ==
    \A j \in JobIds : ffmpeg[j].reading => pipe[j].parent_fd = "closed"

\* C7, amended: the driver releases its handle before it waits on the encoder;
\* the encoder can run, and read, while the driver still holds the handle only
\* between the encoder's spawn (line 101) and the close (line 104).
C7_HeldOnlyUntilClose ==
    /\ \A j \in JobIds :
          (ffmpeg[j].state = "running" /\ pipe[j].parent_fd = "open") =>
              j = Cur /\ epc = "close"
    /\ epc \in {"communicate", "check"} => pipe[Cur].parent_fd = "closed"

\* The encoder has read a frame and the driver has not closed its handle yet.
C7_Witness ==
    /\ epc = "close"
    /\ ffmpeg[Cur].reading
    /\ pipe[Cur].parent_fd = "open"

\* C8: a FileNotFoundError on either spawn makes encode_video return False at
\* once: the encoder is not running, was not waited on, and if it was the
\* frame-source that could not be launched, the encoder was never spawned.
C8_ToolMissingStopsJob ==
    /\ result.kind = "tool_missing" =>
          /\ epc = "returned"
          /\ ~result.ok
          /\ ffmpeg[Cur].state = "none"
          /\ returncode = NotExited
    /\ \A j \in JobIds : vspipe[j].state = "none" => ffmpeg[j].state = "none"

\* The encoder could not be launched, the frame-source already running.
C8_Witness ==
    /\ epc = "returned"
    /\ result.kind = "tool_missing"
    /\ vspipe[Cur].state = "running"

\* How many times a token occurs in an argument list.
Count(cmd, tok) == Cardinality({k \in 1..Len(cmd) : cmd[k] = tok})

\* C9: for every catalog entry and any paths the encoder's argument list is
\* ffmpeg -i pipe:0 -i <input> -map 0:v -map 1:a? -map 1:s? -c:v <codec>
\* -pix_fmt <pix_fmt>, one of (-profile:v <profile>) and (-level:v <level>),
\* the extra_args as they are, -c:a copy -c:s copy -y <output>.
C9_EncoderCommand ==
    cmds # NoCmds =>
        LET p == ENCODING_PROFILES[format_name]
            cmd == cmds.ffmpeg
            n == Len(p.extra_args)
        IN  /\ Len(cmd) = 23 + n
            /\ SubSeq(cmd, 1, 15) =
                 <<Tok("ffmpeg"), Tok("-i"), Tok("pipe:0"), Tok("-i"),
                   PathTok(jobs[Cur].file), Tok("-map"), Tok("0:v"),
                   Tok("-map"), Tok("1:a?"), Tok("-map"), Tok("1:s?"),
                   Tok("-c:v"), Tok(p.codec), Tok("-pix_fmt"), Tok(p.pix_fmt)>>
            /\ \/ /\ "profile" \in DOMAIN p /\ "level" \notin DOMAIN p
                  /\ cmd[16] = Tok("-profile:v") /\ cmd[17] = Tok(p.profile)
               \/ /\ "level" \in DOMAIN p /\ "profile" \notin DOMAIN p
                  /\ cmd[16] = Tok("-level:v") /\ cmd[17] = Tok(p.level)
            /\ SubSeq(cmd, 18, 17 + n) = Toks(p.extra_args)
            /\ SubSeq(cmd, 18 + n, 23 + n) =
                 <<Tok("-c:a"), Tok("copy"), Tok("-c:s"), Tok("copy"),
                   Tok("-y"), jobs[Cur].output_path>>
            /\ Count(cmd, Tok("-c:v")) = 1
            /\ Count(cmd, Tok("-pix_fmt")) = 1
            /\ Count(cmd, Tok("-profile:v")) + Count(cmd, Tok("-level:v")) = 1

\* The command of a batch job on a file of a subdirectory, under an FFV1 format.
C9_Witness ==
    /\ cmds # NoCmds
    /\ format_name = "ffv1_12bit_444"
    /\ jobs[Cur].file.dir = "sub"

\* The flag is in the command, followed by value.
HasFlag(cmd, flag, value) ==
    \E k \in 1..(Len(cmd) - 1) : cmd[k] = Tok(flag) /\ cmd[k + 1] = Tok(value)

C11_UnknownFormatReturnsFalse ==
    /\ (epc \notin {"idle", "start"} /\ ~ProfileFound(format_name)) =>
          /\ epc = "returned"
          /\ result = [ok |-> FALSE, kind |-> "profile_not_found"]
          /\ profile = NoProfile
          /\ cmds = NoCmds
          /\ NoChildEver
    /\ result.kind = "profile_not_found" => ~ProfileFound(format_name)

\* encode_video has returned for the format name 'h264_8bit'.
C11_Witness ==
    /\ pc = "standalone"
    /\ epc = "returned"
    /\ format_name = "h264_8bit"
    /\ result.kind = "profile_not_found"

\* How far encode_video is in the call in progress.
EpcRank(at) ==
    CASE at = "start" -> 1
      [] at = "spawn_vspipe" -> 2
      [] at = "spawn_ffmpeg" -> 3
      [] at = "close" -> 4
      [] at = "communicate" -> 5
      [] at = "check" -> 6
      [] OTHER -> 7

\* The stage of job k: 1 Planned, 2 CommandBuilt, 3 Running, 4 Succeeded or Failed.
JobStage(k) ==
    IF jobs[k].outcome # "running" \/ k # Cur THEN 4
    ELSE IF EpcRank(epc) <= 2 THEN EpcRank(epc)
    ELSE IF EpcRank(epc) <= 6 THEN 3
    ELSE 4

\* C12: in every step, a job's stage does not go back and within a call
\* encode_video only goes forward; a job that has an outcome keeps it; a
\* frame-source starts running only as the first one of the current job, on the
\* step CommandBuilt -> Running, and an encoder only as the first one of the
\* current job, at line 101; the jobs of a run are for different files. So
\* each file gets at most one frame-source and at most one encoder.
C12_ForwardOnly ==
    [][ /\ Len(jobs') >= Len(jobs)
        /\ \A a, b \in 1..Len(jobs') : a # b => jobs'[a].file # jobs'[b].file
        /\ \A k \in 1..Len(jobs) :
             /\ jobs'[k].file = jobs[k].file
             /\ JobStage(k)' >= JobStage(k)
             /\ jobs[k].outcome # "running" => jobs'[k] = jobs[k]
        /\ (Len(jobs') = Len(jobs) /\ epc' # epc /\ EpcRank(epc) < 7) =>
             EpcRank(epc') > EpcRank(epc)
        /\ \A j \in JobIds :
             /\ (vspipe[j].state # "running" /\ vspipe'[j].state = "running") =>
                  /\ vspipe[j].state = "none"
                  /\ j = Cur
                  /\ JobStage(j) = 2 /\ JobStage(j)' = 3
             /\ (ffmpeg[j].state # "running" /\ ffmpeg'[j].state = "running") =>
                  /\ ffmpeg[j].state = "none"
                  /\ j = Cur
                  /\ epc = "spawn_ffmpeg" /\ epc' = "close"
             /\ vspipe[j].state # "none" => vspipe'[j].state # "none"
             /\ ffmpeg[j].state # "none" => ffmpeg'[j].state # "none"
      ]_vars

\* A run of two files is over: the first job failed on the encoder's exit
\* status and was left at that, the second succeeded.
C12_Witness ==
    /\ pc = "finished"
    /\ Len(jobs) = 2
    /\ jobs[1].outcome = "failed"
    /\ ffmpeg[1].state = "reaped"
    /\ vspipe[1].state = "exited"
    /\ jobs[2].outcome = "success"
    /\ ffmpeg[2].state = "reaped"

\* File discovery has passed: main() is in its loop or beyond.
DiscoveryPassed == i >= 1

\* C13: after discovery, no outcome of encode_video (True, False or an
\* exception) ends main() or sets its exit status: while jobs run the status is
\* unset and process_file can always return to the loop; main() that finished
\* exits 0 with every file's outcome logged, whatever the outcomes; the one
\* other end a run has after discovery is the loop's own mkdir raising, before
\* encode_video is called for that file.
C13_JobFailuresKeepExitZero ==
    /\ (DiscoveryPassed /\ pc \in {"loop", "job"}) =>
          exit_status = NotExited /\ crash_stage = None
    /\ (pc = "job" /\ epc \in {"returned", "raised"}) => ENABLED ProcessFileReturn
    /\ pc = "finished" =>
          /\ exit_status = 0
          /\ Len(jobs) = Len(files_to_process)
          /\ \A k \in 1..Len(jobs) :
                jobs[k].outcome \in {"success", "failed", "exception"}
    /\ (DiscoveryPassed /\ Ended /\ pc # "finished") =>
          /\ crash_stage = "job_dir"
          /\ epc = "idle"
          /\ Len(jobs) < Len(files_to_process)

\* main() finished with status 0 and both jobs of the run failed.
C13_Witness ==
    /\ pc = "finished"
    /\ exit_status = 0
    /\ Len(jobs) = 2
    /\ jobs[1].outcome \in {"failed", "exception"}
    /\ jobs[2].outcome \in {"failed", "exception"}

\* A process of job j is running.
Alive(j) == vspipe[j].state = "running" \/ ffmpeg[j].state = "running"

\* C14: processes of two different jobs are never running at the same time:
\* when a job's frame-source or encoder runs, every process of every other job
\* has terminated.
C14_OneJobAtATime ==
    \A a, b \in JobIds : a # b => ~(Alive(a) /\ Alive(b))

\* C15: whenever encode_video returns, or raises, after it has spawned the
\* frame-source, it has closed its handle to the frame-source's stdout and the
\* frame-source is not running any more. (The claim also wants it reaped.)
C15_ProducerReleased ==
    (epc \in {"returned", "raised"} /\ vspipe[Cur].state # "none") =>
        /\ pipe[Cur].parent_fd = "closed"
        /\ vspipe[Cur].state # "running"

\* C16: after discovery, main() ends only by finishing its loop: no error of a
\* per-file step (the relative path, the destination directory's mkdir, the
\* environment, the encoder) ends it or makes it skip a file.
C16_PerFileErrorsConfined ==
    (DiscoveryPassed /\ Ended) =>
        /\ pc = "finished"
        /\ Len(jobs) = Len(files_to_process)

\* The extension the claim gives each profile.
ClaimedExt ==
    [ prores_422_hq_10bit |-> "mov", prores_444_16bit |-> "mov",
      ffv1_10bit_422 |-> "mkv", ffv1_12bit_444 |-> "mkv" ]

\* C17: every job's output path is, under the run's directory (named by the
\* timestamp main() took at its start), the input's directory relative to the
\* input directory in batch mode and nothing in single-file mode, then
\* <stem>_<timestamp>_<format>.<ext> with the same timestamp for every job of
\* the run, ext mov for the two ProRes formats and mkv for the two FFV1 ones.
C17_OutputName ==
    \A k \in 1..Len(jobs) :
        LET f == jobs[k].file
        IN  /\ selected_format \in DOMAIN ClaimedExt
            /\ timestamp \in Timestamps
            /\ jobs[k].output_path =
                 <<timestamp, IF batch_process_directory THEN f.dir ELSE ".",
                   f.stem, timestamp, selected_format, ClaimedExt[selected_format]>>
            /\ (IF batch_process_directory THEN f.dir ELSE ".") \in dirs

\* The second job of a batch run, on a file of a subdirectory, under a ProRes
\* format.
C17_Witness ==
    /\ Len(jobs) = 2
    /\ batch_process_directory
    /\ jobs[2].file.dir = "sub"
    /\ jobs[1].file.dir = "."
    /\ selected_format = "prores_444_16bit"

\* C18: whatever flags are enabled, get_selected_format returns None or a key
\* of ENCODING_PROFILES; so past validation selected_format is a key, the
\* lookup of line 231 is defined, encode_video is always called with a key and
\* never returns on its profile-not-found branch.
C18_SelectedIsCatalogKey ==
    /\ \A e \in [FormatNames -> BOOLEAN] :
          get_selected_format(e) \in DOMAIN ENCODING_PROFILES \cup {None}
    /\ selected_format \in DOMAIN ENCODING_PROFILES \cup {None}
    /\ pc \in {"deps", "discover", "loop", "job", "finished"} =>
          ProfileFound(selected_format)
    /\ epc # "idle" => ProfileFound(format_name)
    /\ result.kind # "profile_not_found"

\* encode_video, called by the batch driver, has found the profile.
C18_Witness ==
    /\ pc = "job"
    /\ epc = "spawn_vspipe"
    /\ format_name = "ffv1_10bit_422"
    /\ profile = ENCODING_PROFILES["ffv1_10bit_422"]

\* The frame-source (resp. the encoder) of job j was spawned.
VspipeSpawned(j) == vspipe[j].state # "none"
FfmpegSpawned(j) == ffmpeg[j].state # "none"

\* C19: no step changes the driver's own environment, which stays the
\* inherited one; the job's environment exists only while process_file runs;
\* every frame-source started with the inherited environment plus the seven
\* VS_* variables as set for its own job's file, nothing of another job's; and
\* every encoder started with the inherited environment as it was, none of the
\* job's values in it.
C19_EnvironmentUntouched ==
    /\ [][os_environ' = os_environ]_vars
    /\ [](/\ os_environ \in InheritedEnvs
          /\ pc # "job" => process_env = NoEnv
          /\ \A j \in JobIds :
               /\ VspipeSpawned(j) =>
                    /\ \A k \in EnvKeys \ VSKeys :
                          child_env[j].vspipe[k] = os_environ[k]
                    /\ \A k \in VSKeys : child_env[j].vspipe[k] # Unset
                    /\ child_env[j].vspipe["VS_INPUT_PATH"] = PathTok(jobs[j].file)
                    /\ child_env[j].vspipe["VS_TARGET_FORMAT"] = Tok(selected_format)
                    /\ child_env[j].vspipe["VS_TEST_FRAMES"] \in {Tok("0"), Tok("200")}
               /\ ~VspipeSpawned(j) => child_env[j].vspipe = NoEnv
               /\ FfmpegSpawned(j) =>
                    /\ child_env[j].ffmpeg \in InheritedEnvs
                    /\ child_env[j].ffmpeg = os_environ
                    /\ child_env[j].ffmpeg["VS_TARGET_FORMAT"] = Unset
                    /\ child_env[j].ffmpeg["VS_INPUT_PATH"] # PathTok(jobs[j].file)
               /\ ~FfmpegSpawned(j) => child_env[j].ffmpeg = NoEnv)

\* The second job's two processes are spawned: the frame-source has the job's
\* values, the encoder and the driver still have the inherited ones.
C19_Witness ==
    /\ Len(jobs) = 2
    /\ VspipeSpawned(1)
    /\ VspipeSpawned(2) /\ FfmpegSpawned(2)
    /\ child_env[2].vspipe["VS_TEST_FRAMES"] = Tok("0")
    /\ child_env[2].vspipe["VS_INPUT_PATH"] = PathTok(jobs[2].file)
    /\ child_env[1].vspipe["VS_INPUT_PATH"] = PathTok(jobs[1].file)
    /\ child_env[2].ffmpeg["VS_TEST_FRAMES"] = Tok("25")
    /\ os_environ["VS_INPUT_PATH"] = <<"old", "reel", ".mov">>

====
